---- MODULE Spec2Model ----
(***************************************************************************)
(* Mask refinement of backend/api/mask_refinement_service.py:              *)
(* morphological open/close cleanup followed by distance-transform         *)
(* feathering with a family of opacity profiles.                           *)
(*                                                                         *)
(* Arrays are functions over the pixel grid (0..h-1) \X (0..w-1).          *)
(* Floating-point values in [0,1] are fixed-point integers in 0..Scale     *)
(* (value v stands for v / Scale); 1.0 is exactly Scale and 0.0 exactly 0. *)
(* exp and cos are evaluated by monotone integer approximations.           *)
(*                                                                         *)
(* Spec looks at one call of one function of the engine, SpecSession at a  *)
(* process calling apply_feathering repeatedly on arrays it holds, SpecRun *)
(* and SpecConcurrent at the HTTP service (routes.py, sam_service.py,      *)
(* mask_generation_service.py) with one and with two /run requests.        *)
(***************************************************************************)
EXTENDS Integers, Sequences, FiniteSets, TLC

VARIABLES
    pc,       \* "start" before the call, "done" after it returned or raised
    entry,    \* which function is called: "apply", "feather", "smooth", "profile"
    mask,     \* the caller's input array: [h, w, px]
    method,   \* the method argument of the call
    width,    \* the width argument of the call
    radius,   \* the r argument of a direct smooth_open_close call
    cleaned,  \* local `mask` of apply_feathering after line 162 (NotComputed before)
    dist,     \* local D_out of _feather (NotComputed when line 36 did not run)
    tpair,    \* two normalized distances a profile function is evaluated at
    gpair,    \* the profile's values at tpair
    result,   \* what the call returned or raised
    heap,     \* a caller's array objects, and the object the callee's local refers to
    globals,  \* the names bound at module level in mask_refinement_service
    calls,    \* the calls of apply_feathering a process has made, in order
    uploaded_images,  \* routes.uploaded_images: the ids of the stored uploads
    predictor,        \* the one SamPredictor of the SAMService singleton
    requests          \* the /run requests: position, arguments, locals, response

\* one call of one function of the engine
callVars ==
    <<pc, entry, mask, method, width, radius, cleaned, dist, tpair, gpair, result>>

\* a process calling apply_feathering repeatedly
sessionVars == <<heap, globals, calls>>

\* the HTTP service
runVars == <<uploaded_images, predictor, requests>>

vars == <<callVars, sessionVars, runVars>>

----------------------------------------------------------------------------
(* Bounds of the model *)

\* fixed-point resolution: 1.0 is Scale
Scale == 1000
\* grids with at most MaxArea pixels are enumerated with every mask on them
MaxArea == 6
\* the one-row grid long enough for a mask to survive the radius-4 cleaning
RowLen == 10
\* widths 1..MaxWidth besides the non-positive ones and the configured one
MaxWidth == 3
\* square grids up to MaxSide x MaxSide carry the all-false and all-true masks
MaxSide == 10
\* radii 0..MaxRadius of direct smooth_open_close calls
MaxRadius == 5
\* profile functions are sampled at i / TSteps, i in 0..TSteps
TSteps == 20
\* a process makes at most MaxCalls calls of apply_feathering
MaxCalls == 3
\* the segmenter's confidence scores are drawn from 1..MaxScore
MaxScore == 3

----------------------------------------------------------------------------
(* Values *)

NotComputed == "not_computed"
\* an argument or result not bound yet
NoValue == "unset"
\* 0/0 in `D_out / w` (line 39) when w = 0 on an interior pixel
NaN == -1

Min(S) == CHOOSE x \in S : \A y \in S : x <= y
Max(S) == CHOOSE x \in S : \A y \in S : x >= y
Abs(n) == IF n < 0 THEN -n ELSE n

RECURSIVE ISqrtBetween(_, _, _)
ISqrtBetween(n, lo, hi) ==
    IF lo >= hi THEN lo
    ELSE LET mid == (lo + hi + 1) \div 2
         IN IF mid * mid <= n THEN ISqrtBetween(n, mid, hi)
                              ELSE ISqrtBetween(n, lo, mid - 1)

\* floor(sqrt(n)) for 0 <= n <= Scale^2
ISqrt(n) == ISqrtBetween(n, 0, Scale)

----------------------------------------------------------------------------
(* FeatheringMethod and the configuration *)

FeatheringMethod ==
    {"none", "linear", "exponential", "cosine", "sigmoid",
     "ease_out_power", "ease_out_exp"}

FEATHER_METHOD == "ease_out_power"
FEATHER_WIDTH == 10

\* an identifier that is no member of the enum
UnknownMethods == {"gaussian"}
Methods == FeatheringMethod \cup UnknownMethods

Widths == (-1 .. MaxWidth) \cup {FEATHER_WIDTH}

----------------------------------------------------------------------------
(* Arrays *)

Pixels(h, w) == (0 .. h - 1) \X (0 .. w - 1)

\* px is kept as an explicit table: f @@ <<>> evaluates f once at every pixel
Array(h, w, f) == [h |-> h, w |-> w, px |-> f @@ <<>>]

Grid(a) == Pixels(a.h, a.w)

Shape(a) == <<a.h, a.w>>

\* M = mask.astype(bool); M.any(); M.all()
True(a) == {p \in Grid(a) : a.px[p]}
MaskAny(a) == \E p \in Grid(a) : a.px[p]
MaskAll(a) == \A p \in Grid(a) : a.px[p]

\* every boolean array of a shape
BoolArrays(h, w) == {Array(h, w, f) : f \in [Pixels(h, w) -> BOOLEAN]}

AllFalse(h, w) == Array(h, w, [p \in Pixels(h, w) |-> FALSE])
AllTrue(h, w) == Array(h, w, [p \in Pixels(h, w) |-> TRUE])

----------------------------------------------------------------------------
(* Smoothing: lines 110-142 *)

\* bool -> uint8 {0, 255}
to_u8(a) == Array(a.h, a.w, [p \in Grid(a) |-> IF a.px[p] THEN 255 ELSE 0])

\* uint8 -> bool
to_bool(a) == Array(a.h, a.w, [p \in Grid(a) |-> a.px[p] > 0])

\* round(sqrt(n)) for n >= 0: the d with (2d-1)^2 <= 4n < (2d+1)^2
RoundSqrt(n) ==
    CHOOSE d \in 0 .. n + 1 :
        /\ (2 * d - 1) * (2 * d - 1) <= 4 * n \/ d = 0
        /\ 4 * n < (2 * d + 1) * (2 * d + 1)

\* cv2.getStructuringElement(cv2.MORPH_ELLIPSE, (2r+1, 2r+1)) as the set of
\* offsets <<dy, dx>> from the anchor (the centre) where the element is 1:
\* row dy is 1 from -dx to dx, dx = round(r * sqrt((r^2 - dy^2) / r^2)); a
\* 1x1 element is the single centre pixel.
disk_kernel(r) ==
    UNION {LET dx == RoundSqrt(r * r - dy * dy)
           IN {<<dy, j>> : j \in -dx .. dx} : dy \in -r .. r}

\* _disk_kernel(r), built once for each radius in use
DiskKernels == [r \in 0 .. MaxRadius |-> disk_kernel(r)] @@ <<>>

\* the offsets of the element that can land inside an h x w image
Reach(se, h, w) == {o : o \in {x \in se : Abs(x[1]) < h /\ Abs(x[2]) < w}}

\* the values of a uint8 image made by to_u8
U8 == {0, 255}

\* value v occurs in the image under the element anchored at p
Under(a, se, p, v) ==
    \E o \in se :
        LET q == <<p[1] + o[1], p[2] + o[2]>>
        IN q \in Grid(a) /\ a.px[q] = v

\* cv2.erode with a constant zero border: a pixel whose element leaves the
\* image becomes 0
ErodeZeroBorder(a, se) ==
    LET k == Reach(se, a.h, a.w)
    IN Array(a.h, a.w,
             [p \in Grid(a) |->
                 IF \E o \in se : <<p[1] + o[1], p[2] + o[2]>> \notin Grid(a)
                 THEN 0
                 ELSE Min({v \in U8 : Under(a, k, p, v)})])

\* cv2.erode with the default border value: the minimum over the pixels of
\* the image under the element; pixels outside the image take no part
Erode(a, se) ==
    LET k == Reach(se, a.h, a.w)
    IN Array(a.h, a.w, [p \in Grid(a) |-> Min({v \in U8 : Under(a, k, p, v)})])

\* cv2.dilate with the default border value: the maximum over the pixels of
\* the image under the element; pixels outside the image take no part
Dilate(a, se) ==
    LET k == Reach(se, a.h, a.w)
    IN Array(a.h, a.w, [p \in Grid(a) |-> Max({v \in U8 : Under(a, k, p, v)})])

\* cv2.morphologyEx(m, cv2.MORPH_OPEN, se): erode, then dilate
MorphOpen(a, se) == Dilate(Erode(a, se), se)

\* cv2.morphologyEx(m, cv2.MORPH_CLOSE, se): dilate, then erode
MorphClose(a, se) == Erode(Dilate(a, se), se)

\* the two morphologyEx calls in the other order: closing, then opening
smooth_close_open(a, r) ==
    LET m == to_u8(a)
        se == DiskKernels[r]
        closed == MorphClose(m, se)
        opened == MorphOpen(closed, se)
    IN to_bool(opened)

smooth_open_close(a, r) ==
    LET m == to_u8(a)
        se == DiskKernels[r]
        opened == MorphOpen(m, se)
        closed == MorphClose(opened, se)
    IN to_bool(closed)

----------------------------------------------------------------------------
(* Numerics: np.exp, np.cos, np.power on fixed-point values *)

\* np.power(t, p) for an integer exponent p >= 0
RECURSIVE Pow(_, _)
Pow(t, p) == IF p = 0 THEN Scale ELSE (Pow(t, p - 1) * t) \div Scale

\* np.exp(-x) for x >= 0 (x and the value in units of 1/Scale): with
\* y = x / 32, exp(-y) ~ 1 - y + y^2/2 in units of 1/(32*Scale), then
\* squared five times.  Every stage is monotone, so ExpNeg is non-increasing.
ExpNeg(x) ==
    LET SI == 32 * Scale
        Sq(a) == (a * a) \div SI
        e32 == ((2 * SI * SI - 2 * x * SI) + x * x) \div (2 * SI)
    IN Sq(Sq(Sq(Sq(Sq(e32))))) \div 32

\* np.cos(np.pi * t) for t in [0,1], in units of 1/(16*Scale): with
\* v = pi*t/4, cos v ~ 1 - v^2/2 + v^4/24, then cos 2v = 2 cos^2 v - 1 twice.
CosPi(t) ==
    LET SC == 16 * Scale
        v == (((7854 * SC) \div 10000) * t) \div Scale
        w == (v * v) \div SC
        c4 == SC - (w * (12 * SC - w)) \div (24 * SC)
        c2 == (2 * c4 * c4) \div SC - SC
    IN (2 * c2 * c2) \div SC - SC

\* k = np.log(100.0), in units of 1/Scale
LogHundred == (460517 * Scale) \div 100000

----------------------------------------------------------------------------
(* Profile functions: the lambdas g of lines 57-107, t in 0..Scale *)

g_linear(t) == IF t = NaN THEN NaN ELSE Scale - t

g_exp(t) == IF t = NaN THEN NaN ELSE ExpNeg((LogHundred * t) \div Scale)

g_cos(t) == IF t = NaN THEN NaN ELSE (16 * Scale + CosPi(t)) \div 32

\* the logistic with the sign of its exponent flipped: 1 / (1 + exp(-a (t - 0.5)))
g_sigmoid_rising(t) ==
    IF t = NaN THEN NaN
    ELSE LET z == (12 * (2 * t - Scale)) \div 2
             e == ExpNeg(Abs(z))
         IN IF z < 0 THEN (Scale * e) \div (Scale + e)
                     ELSE (Scale * Scale) \div (Scale + e)

\* 1 / (1 + exp(a (t - 0.5))), a = 12; with e = exp(-|a (t - 0.5)|) this is
\* 1 / (1 + 1/e) = e / (1 + e) from mid-ramp on and 1 / (1 + e) before it
g_sigmoid(t) ==
    IF t = NaN THEN NaN
    ELSE LET z == (12 * (2 * t - Scale)) \div 2
             e == ExpNeg(Abs(z))
         IN IF z < 0 THEN (Scale * Scale) \div (Scale + e)
                     ELSE (Scale * e) \div (Scale + e)

\* 1 + t^p in place of 1 - t^p
g_ease_out_power_above_one(t) == IF t = NaN THEN NaN ELSE Scale + Pow(t, 3)

g_ease_out_power(t) == IF t = NaN THEN NaN ELSE Scale - Pow(t, 3)

g_ease_out_exp(t) ==
    IF t = NaN THEN NaN ELSE ExpNeg((LogHundred * Pow(t, 3)) \div Scale)

\* the profile a feather_* function hands to _feather
Profile(g, t) ==
    CASE g = "linear" -> g_linear(t)
      [] g = "exponential" -> g_exp(t)
      [] g = "cosine" -> g_cos(t)
      [] g = "sigmoid" -> g_sigmoid(t)
      [] g = "ease_out_power" -> g_ease_out_power(t)
      [] g = "ease_out_exp" -> g_ease_out_exp(t)

ProfileMethods == FeatheringMethod \ {"none"}

----------------------------------------------------------------------------
(* _feather: lines 20-49 *)

SqDistance(p, q) ==
    (p[1] - q[1]) * (p[1] - q[1]) + (p[2] - q[2]) * (p[2] - q[2])

\* the chessboard metric, squared: max(|dy|, |dx|)^2
ChessboardSq(p, q) ==
    LET d == Max({Abs(p[1] - q[1]), Abs(p[2] - q[2])}) IN d * d

distance_transform_chessboard(a) ==
    Array(a.h, a.w,
          [p \in Grid(a) |-> Min({ChessboardSq(p, q) : q \in True(a)})])

\* scipy's distance_transform_edt(~M) for an M with a true pixel, squared:
\* an exterior pixel gets the squared Euclidean distance to the nearest
\* pixel of M, a pixel of M gets 0.  D_out is the square root of an entry.
distance_transform_edt(a) ==
    Array(a.h, a.w,
          [p \in Grid(a) |-> Min({SqDistance(p, q) : q \in True(a)})])

\* t = np.clip(D_out / w, 0.0, 1.0) at a pixel with D_out^2 = d2:
\* floor(Scale * sqrt(d2) / w) below 1; x/0 is inf, 0/0 is nan
NormalizedDistance(d2, w) ==
    IF w > 0 THEN IF d2 >= w * w THEN Scale
                  ELSE ISqrt((d2 * Scale * Scale) \div (w * w))
    ELSE IF w < 0 THEN 0
    ELSE IF d2 = 0 THEN NaN ELSE Scale

\* the band test written D_out <= w
BandInclusive(d2, w) == w >= 0 /\ d2 <= w * w

\* band = D_out < w, D_out = sqrt(d2) >= 0
Band(d2, w) == w > 0 /\ d2 < w * w

\* np.zeros_like(mask, dtype=np.float32)
zeros_like(a) == Array(a.h, a.w, [p \in Grid(a) |-> 0])

\* the all-true shortcut returning zeros as the all-false one does
ones_like_as_zeros(a) == zeros_like(a)

\* np.ones_like(mask, dtype=np.float32)
ones_like(a) == Array(a.h, a.w, [p \in Grid(a) |-> Scale])

\* lines 45-48 at pixel p, the ramp written over the whole band, interior included
AlphaRampInside(a, D2, g, w, p) ==
    IF Band(D2.px[p], w) THEN Profile(g, NormalizedDistance(D2.px[p], w))
    ELSE IF a.px[p] THEN Scale ELSE 0

\* lines 45-48 at pixel p: 1.0 inside M, the ramp outside it within the band,
\* 0.0 elsewhere
Alpha(a, D2, g, w, p) ==
    IF a.px[p] THEN Scale
    ELSE IF Band(D2.px[p], w) THEN Profile(g, NormalizedDistance(D2.px[p], w))
    ELSE 0

\* _feather(mask, g, w): what it returns (ret) and its local D_out
feather(a, g, w) ==
    IF ~MaskAny(a) THEN [ret |-> zeros_like(a), D_out |-> NotComputed]
    ELSE IF MaskAll(a) THEN [ret |-> ones_like(a), D_out |-> NotComputed]
    ELSE LET D2 == distance_transform_edt(a)
         IN [ret |-> Array(a.h, a.w, [p \in Grid(a) |-> Alpha(a, D2, g, w, p)]),
             D_out |-> D2]

feather_linear(a, w) == feather(a, "linear", w)
feather_exp(a, w) == feather(a, "exponential", w)
feather_cos(a, w) == feather(a, "cosine", w)
feather_sigmoid(a, w) == feather(a, "sigmoid", w)
feather_ease_out_power(a, w) == feather(a, "ease_out_power", w)
feather_ease_out_exp(a, w) == feather(a, "ease_out_exp", w)

----------------------------------------------------------------------------
(* apply_feathering: lines 147-179 *)

\* mask.astype(np.float32) of a boolean array
astype_float32(a) ==
    Array(a.h, a.w, [p \in Grid(a) |-> IF a.px[p] THEN Scale ELSE 0])

ValueError == [raised |-> "ValueError"]

Raised(r) == "raised" \in DOMAIN r

\* the radius apply_feathering cleans with (line 162)
CleanRadius == 4

\* the chain without its final else: an unknown method returns the cleaned mask
DispatchUnknownAsNone(m, meth, w) ==
    IF meth \in FeatheringMethod \ {"none"}
    THEN feather(m, meth, w)
    ELSE [ret |-> astype_float32(m), D_out |-> NotComputed]

\* the chain without its first branch: none is feathered linearly
DispatchNoneAsLinear(m, meth, w) ==
    IF meth \in FeatheringMethod
    THEN feather(m, IF meth = "none" THEN "linear" ELSE meth, w)
    ELSE [ret |-> ValueError, D_out |-> NotComputed]

\* the if/elif chain of lines 164-179 on the cleaned mask
Dispatch(m, meth, w) ==
    CASE meth = "none" -> [ret |-> astype_float32(m), D_out |-> NotComputed]
      [] meth = "linear" -> feather_linear(m, w)
      [] meth = "exponential" -> feather_exp(m, w)
      [] meth = "cosine" -> feather_cos(m, w)
      [] meth = "sigmoid" -> feather_sigmoid(m, w)
      [] meth = "ease_out_power" -> feather_ease_out_power(m, w)
      [] meth = "ease_out_exp" -> feather_ease_out_exp(m, w)
      [] OTHER -> [ret |-> ValueError, D_out |-> NotComputed]

----------------------------------------------------------------------------
(* Inputs *)

SmallShapes ==
    {s \in (1 .. MaxArea) \X (1 .. MaxArea) : s[1] * s[2] <= MaxArea}

\* every mask on every grid of at most MaxArea pixels
SmallMasks == UNION {BoolArrays(s[1], s[2]) : s \in SmallShapes}

\* every mask on the 1 x RowLen grid
RowMasks == BoolArrays(1, RowLen)

\* the all-false and the all-true mask on the square grids
DegenerateMasks ==
    UNION {{AllFalse(n, n), AllTrue(n, n)} : n \in 1 .. MaxSide}

----------------------------------------------------------------------------
(* Calls *)

Masks == SmallMasks \cup RowMasks \cup DegenerateMasks

Radii == 0 .. MaxRadius

\* the sampled normalized distance i / TSteps
Sample(i) == (i * Scale) \div TSteps

\* no process and no service: one call is looked at on its own
NoSession == heap = NoValue /\ globals = NoValue /\ calls = NoValue

NoService ==
    uploaded_images = NoValue /\ predictor = NoValue /\ requests = NoValue

InitCall(e, masks) ==
    /\ NoSession /\ NoService
    /\ pc = "start"
    /\ entry = e
    /\ mask \in masks
    /\ method = NoValue
    /\ width = NoValue
    /\ radius = NoValue
    /\ cleaned = NotComputed
    /\ dist = NotComputed
    /\ tpair = NoValue
    /\ gpair = NoValue
    /\ result = NoValue

InitProfile ==
    /\ NoSession /\ NoService
    /\ pc = "start"
    /\ entry = "profile"
    /\ mask = NoValue
    /\ method \in ProfileMethods
    /\ width = NoValue
    /\ radius = NoValue
    /\ cleaned = NotComputed
    /\ dist = NotComputed
    /\ tpair \in {<<Sample(i), Sample(j)>> : i, j \in 0 .. TSteps}
    /\ gpair = NoValue
    /\ result = NoValue

Init ==
    \/ InitCall("apply", Masks)
    \/ InitCall("smooth", Masks)
    \/ InitCall("feather", SmallMasks)
    \/ InitProfile

\* apply_feathering(mask, method, width), lines 147-179: line 162 cleans,
\* lines 164-179 dispatch on the method
ApplyFeathering ==
    /\ pc = "start"
    /\ entry = "apply"
    /\ \E m \in {smooth_open_close(mask, CleanRadius)} :
       \E meth \in Methods, w \in Widths :
       \E r \in {Dispatch(m, meth, w)} :
          /\ method' = meth
          /\ width' = w
          /\ cleaned' = m
          /\ dist' = r.D_out
          /\ result' = r.ret
    /\ pc' = "done"
    /\ UNCHANGED <<entry, mask, radius, tpair, gpair>>
    /\ UNCHANGED <<sessionVars, runVars>>

\* a direct call smooth_open_close(mask, r)
SmoothOpenClose ==
    /\ pc = "start"
    /\ entry = "smooth"
    /\ \E r \in Radii :
          /\ radius' = r
          /\ result' = smooth_open_close(mask, r)
    /\ pc' = "done"
    /\ UNCHANGED <<entry, mask, method, width, cleaned, dist, tpair, gpair>>
    /\ UNCHANGED <<sessionVars, runVars>>

\* a direct call of one of feather_linear .. feather_ease_out_exp
CallFeather(g, a, w) ==
    CASE g = "linear" -> feather_linear(a, w)
      [] g = "exponential" -> feather_exp(a, w)
      [] g = "cosine" -> feather_cos(a, w)
      [] g = "sigmoid" -> feather_sigmoid(a, w)
      [] g = "ease_out_power" -> feather_ease_out_power(a, w)
      [] g = "ease_out_exp" -> feather_ease_out_exp(a, w)

FeatherDirect ==
    /\ pc = "start"
    /\ entry = "feather"
    /\ \E g \in ProfileMethods, w \in Widths :
       \E r \in {CallFeather(g, mask, w)} :
          /\ method' = g
          /\ width' = w
          /\ dist' = r.D_out
          /\ result' = r.ret
    /\ pc' = "done"
    /\ UNCHANGED <<entry, mask, radius, cleaned, tpair, gpair>>
    /\ UNCHANGED <<sessionVars, runVars>>

\* one profile lambda applied to two normalized distances
EvalProfile ==
    /\ pc = "start"
    /\ entry = "profile"
    /\ gpair' = <<Profile(method, tpair[1]), Profile(method, tpair[2])>>
    /\ pc' = "done"
    /\ UNCHANGED <<entry, mask, method, width, radius, cleaned, dist, tpair, result>>
    /\ UNCHANGED <<sessionVars, runVars>>

Next ==
    \/ ApplyFeathering
    \/ SmoothOpenClose
    \/ FeatherDirect
    \/ EvalProfile

Spec == Init /\ [][Next]_vars

----------------------------------------------------------------------------
(* Properties *)

Done(e) == pc = "done" /\ entry = e

Returned(e) == Done(e) /\ ~Raised(result)

NonDegenerate(a) == MaskAny(a) /\ ~MaskAll(a)

\* q is a true pixel of a nearest to p
Nearest(a, p, q) ==
    /\ a.px[q]
    /\ \A q2 \in Grid(a) : a.px[q2] => SqDistance(p, q) <= SqDistance(p, q2)

\* no true pixel of a is closer to p than w: the distance from p to a is >= w
FarFrom(a, p, w) ==
    \A q \in Grid(a) : a.px[q] => SqDistance(p, q) >= w * w

\* In a state after apply_feathering, `cleaned` is its local `mask` after line
\* 162, smooth_open_close(M, r=4): the cleaned mask the claims speak of.

\* C1: for every mask, every feathering method and every width > 0, a pixel
\* that is true in the cleaned mask smooth_open_close(M, 4) has alpha exactly
\* 1.0 in the matte apply_feathering returns.
C1_InteriorIsExactlyOne ==
    (Done("apply") /\ method \in FeatheringMethod /\ width > 0) =>
        /\ ~Raised(result)
        /\ \A p \in Grid(cleaned) : cleaned.px[p] => result.px[p] = Scale

\* C1 witness: a sigmoid matte of a mask the cleaning changed, with an
\* interior pixel at alpha 1.0 although the profile gives less than 1 there
C1_Witness ==
    /\ Returned("apply") /\ method = "sigmoid" /\ width > 0
    /\ NonDegenerate(cleaned) /\ cleaned # mask
    /\ g_sigmoid(NormalizedDistance(0, width)) < Scale
    /\ \E p \in Grid(cleaned) : cleaned.px[p] /\ result.px[p] = Scale

\* C2: for every mask, every feathering method and every width > 0, a pixel
\* that is false in the cleaned mask and at Euclidean distance >= width from
\* its nearest true pixel has alpha exactly 0.0 (a pixel at distance exactly
\* width included).
C2_FarExteriorIsExactlyZero ==
    (Done("apply") /\ method \in FeatheringMethod /\ width > 0) =>
        /\ ~Raised(result)
        /\ \A p \in Grid(cleaned) :
              (~cleaned.px[p] /\ MaskAny(cleaned) /\ FarFrom(cleaned, p, width))
                  => result.px[p] = 0

\* C2 witness: a sigmoid matte with an exterior pixel at distance exactly
\* width, where the logistic is still positive, at alpha 0.0
C2_Witness ==
    /\ Returned("apply") /\ method = "sigmoid" /\ width > 0
    /\ g_sigmoid(Scale) > 0
    /\ \E p, q \in Grid(cleaned) :
          /\ ~cleaned.px[p] /\ Nearest(cleaned, p, q)
          /\ SqDistance(p, q) = width * width
          /\ result.px[p] = 0

\* C3: a call of apply_feathering with width <= 0 fails with a configuration
\* error before any computation: nothing is cleaned, no distance transform is
\* taken and no matte is returned.
C3_NonPositiveWidthFails ==
    (Done("apply") /\ width <= 0) =>
        /\ Raised(result)
        /\ cleaned = NotComputed
        /\ dist = NotComputed

\* C4: a call of apply_feathering with a method that is none of the seven
\* registered ones raises the configuration error (ValueError) and returns
\* no matte, for every mask and width.
C4_UnknownMethodFails ==
    (Done("apply") /\ method \notin FeatheringMethod) => result = ValueError

\* C4 witness: a call with an unregistered method on a mask that survives the
\* cleaning has raised
C4_Witness ==
    /\ Done("apply") /\ method \in UnknownMethods /\ width > 0
    /\ NonDegenerate(cleaned)
    /\ Raised(result)

\* C5: with method none, for every mask and width, the matte is the cleaned
\* mask smooth_open_close(M, 4) cast to {0.0, 1.0} pixel for pixel.
C5_NoneIsCleanedMask ==
    (Done("apply") /\ method = "none") =>
        /\ ~Raised(result)
        /\ Shape(result) = Shape(cleaned)
        /\ DOMAIN result.px = Grid(cleaned)
        /\ \A p \in Grid(cleaned) :
              result.px[p] = IF cleaned.px[p] THEN Scale ELSE 0

\* C5 witness: a none matte of a mask that the cleaning changed and left with
\* both true and false pixels, for a width whose band would hold a ramp
C5_Witness ==
    /\ Returned("apply") /\ method = "none" /\ width = FEATHER_WIDTH
    /\ NonDegenerate(cleaned) /\ cleaned # mask
    /\ \E p, q \in Grid(cleaned) : result.px[p] = Scale /\ result.px[q] = 0

\* C6: for every method and every width > 0, a cleaned mask without a true
\* pixel gives the all-zero matte of the same shape and an entirely true
\* cleaned mask gives the all-one matte of the same shape.
C6_DegenerateShortcut ==
    (Done("apply") /\ method \in FeatheringMethod /\ width > 0) =>
        /\ ~MaskAny(cleaned) =>
              /\ ~Raised(result)
              /\ Shape(result) = Shape(mask)
              /\ DOMAIN result.px = Grid(mask)
              /\ \A p \in Grid(mask) : result.px[p] = 0
        /\ MaskAll(cleaned) =>
              /\ ~Raised(result)
              /\ Shape(result) = Shape(mask)
              /\ DOMAIN result.px = Grid(mask)
              /\ \A p \in Grid(mask) : result.px[p] = Scale

\* C6 witness: a raw mask with a single isolated true pixel, emptied by the
\* radius-4 opening, gives the all-zero matte under a ramp method
C6_Witness ==
    /\ Returned("apply") /\ method = "cosine" /\ width > 0
    /\ Cardinality(True(mask)) = 1
    /\ Cardinality(Grid(mask)) > 1
    /\ ~MaskAny(cleaned)
    /\ \A p \in Grid(mask) : result.px[p] = 0

\* C7: smooth_open_close is a no-op on the all-false and the all-true mask,
\* for every grid size and every radius; hence apply_feathering turns an
\* all-false raw mask into the all-zero matte and an all-true raw mask into
\* the all-one matte, for any method.
C7_CleanerKeepsDegenerate ==
    /\ (Done("smooth") /\ ~NonDegenerate(mask)) => result = mask
    /\ (Done("apply") /\ method \in FeatheringMethod /\ ~MaskAny(mask)) =>
          result = zeros_like(mask)
    /\ (Done("apply") /\ method \in FeatheringMethod /\ MaskAll(mask)) =>
          result = ones_like(mask)

\* C7 witness: the all-true 10x10 mask, smaller than twice the 9x9 element,
\* comes back all-true from smooth_open_close with r = 4
C7_Witness ==
    /\ Done("smooth") /\ radius = CleanRadius
    /\ Shape(mask) = <<10, 10>> /\ MaskAll(mask)
    /\ MaskAll(result)

\* C8: for every mask, every registered method and every width > 0, the
\* matte is a grid over exactly the pixel coordinates of the mask and each of
\* its values lies in [0,1].
C8_ShapeAndRange ==
    (Done("apply") /\ method \in FeatheringMethod /\ width > 0) =>
        /\ ~Raised(result)
        /\ Shape(result) = Shape(mask)
        /\ DOMAIN result.px = Grid(mask)
        /\ \A p \in Grid(mask) : result.px[p] >= 0 /\ result.px[p] <= Scale

\* C8 witness: an ease_out_power matte with a value strictly between 0 and 1
C8_Witness ==
    /\ Returned("apply") /\ method = FEATHER_METHOD /\ width = FEATHER_WIDTH
    /\ \E p \in Grid(mask) : result.px[p] > 0 /\ result.px[p] < Scale

\* the mask _feather ran on: the cleaned mask in apply_feathering, the
\* argument in a direct call
Feathered == IF entry = "apply" THEN cleaned ELSE mask

RampCall ==
    /\ Done("apply") \/ Done("feather")
    /\ method \in ProfileMethods
    /\ NonDegenerate(Feathered)

\* C9: for every method other than none, an exterior pixel whose exact
\* Euclidean distance D to the nearest interior pixel is < width has alpha
\* g(clamp(D / width, 0, 1)); for linear that is 1 - D / width (to the
\* resolution 1/Scale), 0.5 at D = 5 with width = 10; two exterior pixels
\* with equal D have equal alpha.
C9_RampIsProfileOfDistance ==
    RampCall =>
        /\ ~Raised(result)
        /\ \A p, q \in Grid(Feathered) :
              (~Feathered.px[p] /\ Nearest(Feathered, p, q)) =>
                \A d2 \in {SqDistance(p, q)} :
                  /\ (width > 0 /\ d2 < width * width) =>
                        result.px[p] =
                            Profile(method, NormalizedDistance(d2, width))
                  /\ (width > 0 /\ d2 < width * width /\ method = "linear") =>
                        \A t \in {Scale - result.px[p]} :
                          /\ t * t * width * width <= Scale * Scale * d2
                          /\ Scale * Scale * d2 < (t + 1) * (t + 1) * width * width
                  /\ (width = 10 /\ d2 = 25 /\ method = "linear") =>
                        Abs(2 * result.px[p] - Scale) <= 2
                  /\ \A p2, q2 \in Grid(Feathered) :
                        (/\ ~Feathered.px[p2] /\ Nearest(Feathered, p2, q2)
                         /\ SqDistance(p2, q2) = d2) =>
                            result.px[p2] = result.px[p]

\* C9 witness: feather_linear called directly on a mask with a single true
\* pixel, width 10: a pixel at distance 5 has alpha 0.5
C9_Witness ==
    /\ Returned("feather") /\ method = "linear" /\ width = FEATHER_WIDTH
    /\ Cardinality(True(mask)) = 1
    /\ \E p, q \in Grid(mask) :
          /\ ~mask.px[p] /\ mask.px[q] /\ SqDistance(p, q) = 25
          /\ 2 * result.px[p] = Scale

\* C10: every profile other than none is non-increasing on [0,1]:
\* t1 < t2 gives g(t1) >= g(t2); so within one matte an exterior band pixel
\* farther from the mask never has a larger alpha than a nearer one.
C10_ProfilesNonIncreasing ==
    /\ (Done("profile") /\ tpair[1] < tpair[2]) => gpair[1] >= gpair[2]
    /\ (RampCall /\ width > 0) =>
          \A p, p2 \in Grid(Feathered) :
              (/\ ~Feathered.px[p] /\ ~Feathered.px[p2]
               /\ Band(dist.px[p], width) /\ Band(dist.px[p2], width)
               /\ dist.px[p] < dist.px[p2]) =>
                  result.px[p] >= result.px[p2]

\* C10 witness: the logistic evaluated at two sampled distances on either
\* side of mid-ramp, strictly smaller at the larger one
C10_Witness ==
    /\ Done("profile") /\ method = "sigmoid"
    /\ tpair[1] < tpair[2] /\ 2 * tpair[1] < Scale /\ 2 * tpair[2] > Scale
    /\ gpair[1] > gpair[2]

\* erosion, dilation, dilation, erosion of a boolean mask with one element
ErodeDilateDilateErode(a, se) ==
    to_bool(Erode(Dilate(Dilate(Erode(to_u8(a), se), se), se), se))

\* dilation, erosion, erosion, dilation: closing before opening
DilateErodeErodeDilate(a, se) ==
    to_bool(Dilate(Erode(Erode(Dilate(to_u8(a), se), se), se), se))

\* se lies in the (2r+1) x (2r+1) square around its anchor and reaches the
\* middle of each side of it
FillsSquare(se, r) ==
    /\ se \subseteq (-r .. r) \X (-r .. r)
    /\ {<<-r, 0>>, <<r, 0>>, <<0, -r>>, <<0, r>>} \subseteq se

\* every mask eroded, dilated, dilated and eroded with the radius-4 element
CleanedInOrder ==
    [a \in Masks |-> ErodeDilateDilateErode(a, disk_kernel(CleanRadius))]
    @@ <<>>

\* C13: smooth_open_close(mask, r) is erosion, then dilation, then dilation,
\* then erosion of the mask, all four with the same disk-like element of size
\* (2r+1) x (2r+1) (the closing of the opening, in that order);
\* apply_feathering cleans with r = 4 whatever the method and the width, so
\* its cleaned mask is that of smooth_open_close(mask, 4) for each of them.
C13_OpeningThenClosing ==
    /\ Done("smooth") =>
          \E se \in {disk_kernel(radius)} :
              /\ FillsSquare(se, radius)
              /\ result = ErodeDilateDilateErode(mask, se)
    /\ Done("apply") => cleaned = CleanedInOrder[mask]

\* C13 witness: a mask for which the order matters: opening then closing
\* leaves another mask than closing then opening would, and
\* smooth_open_close returned the former
C13_Witness ==
    /\ Done("smooth") /\ radius > 0
    /\ \E se \in {disk_kernel(radius)} :
          /\ result = ErodeDilateDilateErode(mask, se)
          /\ result # DilateErodeErodeDilate(mask, se)

----------------------------------------------------------------------------
(* A process calling apply_feathering repeatedly on arrays it holds *)

\* the array objects the caller holds
CallerObjs == {"a", "b"}

\* the object the local name `mask` of apply_feathering refers to after line
\* 162, for as long as the call runs
Local == "local"

\* a released object
Free == "free"

\* the names mask_refinement_service binds when it is imported: the enum class
\* and the functions; none is bound to mutable data
ModuleGlobals ==
    {"FeatheringMethod", "_feather", "feather_linear", "feather_exp",
     "feather_cos", "feather_sigmoid", "feather_ease_out_power",
     "feather_ease_out_exp", "_to_u8", "_to_bool", "_disk_kernel",
     "smooth_open_close", "apply_feathering"}

\* the module-level names a call of apply_feathering binds: no function of
\* lines 20-179 has a `global` statement or assigns a module attribute
GlobalWrites == {}

\* `mask[:] = smooth_open_close(mask, r=4)`: the cleaned mask stored into the
\* array the caller passed
AssignMaskInPlace(o) == o

\* line 162, `mask = smooth_open_close(mask, r=4)`: the assignment binds the
\* local name to the new array smooth_open_close returns (`m_u8 > 0`, line
\* 121, of the copy _to_u8 made on line 115); o, the object the name referred
\* to before, is not written
AssignMask(o) == Local

\* the content of the caller's objects
Held(h) == [o \in CallerObjs |-> h[o]]

\* the mask with the first k pixels of the 1 x RowLen grid true
RowPrefix(k) == Array(1, RowLen, [p \in Pixels(1, RowLen) |-> p[2] < k])

\* the first k pixels and the last pixel of the 1 x RowLen grid true
RowSpeck(k) ==
    Array(1, RowLen,
          [p \in Pixels(1, RowLen) |-> p[2] < k \/ p[2] = RowLen - 1])

\* masks the radius-4 cleaning keeps (0, RowLen \div 2, RowLen), empties (1),
\* fills (RowLen - 1) and strips of an isolated pixel
SessionMasks ==
    {RowPrefix(k) : k \in {0, 1, RowLen \div 2, RowLen - 1, RowLen}}
        \cup {RowSpeck(RowLen \div 2)}

SessionMethods == {"none", FEATHER_METHOD}

SessionWidths == {MaxWidth, FEATHER_WIDTH}

NoCall ==
    /\ pc = NoValue /\ entry = NoValue /\ mask = NoValue /\ method = NoValue
    /\ width = NoValue /\ radius = NoValue /\ cleaned = NoValue
    /\ dist = NoValue /\ tpair = NoValue /\ gpair = NoValue
    /\ result = NoValue

InitSession ==
    /\ NoCall /\ NoService
    /\ heap \in {f @@ (Local :> Free) : f \in [CallerObjs -> SessionMasks]}
    /\ globals = ModuleGlobals
    /\ calls = <<>>

\* apply_feathering(mask, method, width) called on the caller's object o:
\* line 162 binds the local to the cleaned mask, lines 164-179 dispatch on it
\* (_feather writes in place only into alpha, the array np.zeros_like made
\* on line 45), the return releases the local
SessionApplyFeathering ==
    /\ Len(calls) < MaxCalls
    /\ \E o \in CallerObjs :
       \E m \in {smooth_open_close(heap[o], CleanRadius)} :
       \E h \in {[heap EXCEPT ![AssignMask(o)] = m]} :
       \E meth \in SessionMethods, w \in SessionWidths :
       \E r \in {Dispatch(h[AssignMask(o)], meth, w)} :
          /\ heap' = [h EXCEPT ![Local] = Free]
          /\ globals' = globals \cup GlobalWrites
          /\ calls' = Append(calls,
                             [obj |-> o, mask |-> heap[o], method |-> meth,
                              width |-> w, ret |-> r.ret,
                              before |-> Held(heap), after |-> Held(heap'),
                              bound |-> globals'])
    /\ UNCHANGED <<callVars, runVars>>

NextSession == SessionApplyFeathering

SpecSession == InitSession /\ [][NextSession]_vars

SameArguments(c, d) ==
    c.mask = d.mask /\ c.method = d.method /\ c.width = d.width

----------------------------------------------------------------------------
(* The HTTP service: routes.py, mask_generation_service.py, sam_service.py *)

\* Python's None
None == "None"

\* the images a client may upload, both of size 1 x RowLen
Images == {"A", "B"}

\* uuid.uuid4() of an upload (routes.py line 122): one id for each image
UploadId(img) == <<"uuid", img>>

\* an id no upload was given
MissingId == <<"uuid", "missing">>

\* multimask_output=True (sam_service.py line 88): three candidate masks
NumCandidates == 3

\* the last k pixels of the 1 x RowLen grid true
RowSuffix(k) ==
    Array(1, RowLen, [p \in Pixels(1, RowLen) |-> p[2] >= RowLen - k])

\* SamPredictor.predict: the boolean candidate masks of the image whose
\* embedding the predictor holds; the object of image A lies on the left, the
\* object of image B on the right
PredictMasks(img) ==
    IF img = "A"
    THEN <<RowPrefix(RowLen \div 2), RowSpeck(RowLen \div 2), RowPrefix(RowLen)>>
    ELSE <<RowSuffix(RowLen \div 2), RowSuffix(1), RowPrefix(0)>>

\* SamPredictor.predict: the scores it may give the candidates
PredictScores == [1 .. NumCandidates -> 1 .. MaxScore]

\* the orders of the indices 1..n
IndexOrders(n) ==
    {p \in [1 .. n -> 1 .. n] : \A i, j \in 1 .. n : i # j => p[i] # p[j]}

\* an argsort by descending score
argsort_descending(scores) ==
    {p \in IndexOrders(Len(scores)) :
        \A i \in 1 .. Len(scores) - 1 : scores[p[i]] >= scores[p[i + 1]]}

\* np.argsort(scores): an order of the indices by ascending score, indices of
\* equal scores in whichever order the sort leaves them
argsort(scores) ==
    {p \in IndexOrders(Len(scores)) :
        \A i \in 1 .. Len(scores) - 1 : scores[p[i]] <= scores[p[i + 1]]}

\* s[::-1]
Reverse(s) == [i \in 1 .. Len(s) |-> s[Len(s) + 1 - i]] @@ <<>>

\* (mask > 0.5).astype(np.float32), sam_service.py line 102
threshold(a) ==
    Array(a.h, a.w,
          [p \in Grid(a) |->
              IF 2 * (IF a.px[p] THEN Scale ELSE 0) > Scale THEN Scale ELSE 0])

\* SAMService.generate_masks, lines 92-111: the candidates in the order of
\* sorted_indices, each thresholded, with its score
sam_results(masks, scores, sorted_indices) ==
    [i \in 1 .. Len(sorted_indices) |->
        [mask |-> threshold(masks[sorted_indices[i]]),
         score |-> scores[sorted_indices[i]]]] @@ <<>>

\* a 0.0/1.0 array as astype(np.uint8) in _to_u8 and astype(bool) in _feather
\* read it
astype_bool(a) == Array(a.h, a.w, [p \in Grid(a) |-> a.px[p] # 0])

\* apply_feathering(mask, method, width) as a function of its arguments
apply_feathering(a, meth, w) ==
    Dispatch(smooth_open_close(astype_bool(a), CleanRadius), meth, w).ret

\* MaskGenerationService.generate_masks, lines 43-58: every raw result
\* feathered with the configured method and width, its score kept
refine(raw_results) ==
    [i \in 1 .. Len(raw_results) |->
        [mask |-> apply_feathering(raw_results[i].mask,
                                   FEATHER_METHOD, FEATHER_WIDTH),
         score |-> raw_results[i].score]] @@ <<>>

\* the matte apply_feathering gives each thresholded candidate under the
\* configured method and width: the matte of a raw result depends on its
\* mask alone, so it is computed once for a candidate, whatever place the
\* scores give that candidate
feathered(masks) ==
    [k \in 1 .. Len(masks) |->
        apply_feathering(threshold(masks[k]), FEATHER_METHOD, FEATHER_WIDTH)]
    @@ <<>>

\* refined_results of MaskGenerationService.generate_masks for the raw
\* results in the order of sorted_indices
refined_results(mattes, scores, sorted_indices) ==
    [i \in 1 .. Len(sorted_indices) |->
        [mask |-> mattes[sorted_indices[i]],
         score |-> scores[sorted_indices[i]]]] @@ <<>>

\* (mask * 255).astype(np.uint8), routes.py lines 59 and 82
to_gray(a) == Array(a.h, a.w, [p \in Grid(a) |-> (a.px[p] * 255) \div Scale])

\* _get_mask_bbox: (x_min, y_min, x_max, y_max) of the pixels > 0, the whole
\* image for an empty mask
get_mask_bbox(a) ==
    LET on == {p \in Grid(a) : a.px[p] > 0}
        rows == {p[1] : p \in on}
        cols == {p[2] : p \in on}
    IN IF on = {} THEN <<0, 0, a.w, a.h>>
       ELSE <<Min(cols), Min(rows), Max(cols) + 1, Max(rows) + 1>>

\* _encode_image_base64: a PNG data URI of the image
encode_image_base64(image) == [uri |-> "data:image/png;base64,", png |-> image]

\* _create_masked_image: the image in RGBA with the matte as its alpha
\* channel, cropped to the bounding box
create_masked_image(img, a) ==
    LET bbox == get_mask_bbox(a)
        alpha == to_gray(a)
    IN encode_image_base64(
           [mode |-> "RGBA", of |-> img, bbox |-> bbox,
            alpha |-> [p \in (bbox[2] .. bbox[4] - 1) \X (bbox[1] .. bbox[3] - 1)
                          |-> alpha.px[p]] @@ <<>>])

\* _create_mask_image: the matte as a full-size RGB image with equal channels
\* (a matte has the size of its image, so line 92 never resizes)
create_mask_image(a) ==
    LET mask_gray == to_gray(a)
    IN encode_image_base64(
           [mode |-> "RGB", size |-> <<a.w, a.h>>,
            rgb |-> [p \in Grid(a) |->
                        <<mask_gray.px[p], mask_gray.px[p], mask_gray.px[p]>>]
                    @@ <<>>])

\* routes.py lines 207-227: one response entry for each refined result
encode_results(img, raw_results) ==
    [i \in 1 .. Len(raw_results) |->
        [masked_image |-> create_masked_image(img, raw_results[i].mask),
         mask |-> create_mask_image(raw_results[i].mask),
         score |-> raw_results[i].score]] @@ <<>>

\* a point as json.loads gives it
Point(x, y) == [x |-> x, y |-> y]

\* routes.py lines 153-179: every point has x and y, every label is 0 or 1,
\* and there are as many labels as points
ValidPointsAndLabels(points, labels) ==
    /\ \A i \in DOMAIN points : {"x", "y"} \subseteq DOMAIN points[i]
    /\ \A i \in DOMAIN labels : labels[i] \in {0, 1}
    /\ Len(points) = Len(labels)

RunForm(id, mid, points, labels) ==
    [original_image_id |-> id, mask_image_id |-> mid,
     points |-> points, labels |-> labels]

\* the form fields of the /run requests: one click on image A, two clicks on
\* image B, and forms with an unknown id, a point without y, a label 2 and
\* fewer labels than points
RunForms ==
    {RunForm(UploadId("A"), None, <<Point(0, 0)>>, <<1>>),
     RunForm(UploadId("B"), None, <<Point(0, 0), Point(RowLen - 1, 0)>>, <<1, 0>>),
     RunForm(MissingId, None, <<Point(0, 0)>>, <<1>>),
     RunForm(UploadId("A"), MissingId, <<Point(0, 0)>>, <<1>>),
     RunForm(UploadId("A"), None, <<[x |-> 0]>>, <<1>>),
     RunForm(UploadId("A"), None, <<Point(0, 0)>>, <<2>>),
     RunForm(UploadId("B"), None, <<Point(0, 0), Point(1, 0)>>, <<1>>)}

HTTPException(status, detail) == [status |-> status, detail |-> detail]

\* a request slot before its request arrives; stored is the set of ids in
\* uploaded_images when the request arrived
NewRequest ==
    [pc |-> "idle", form |-> NoValue, stored |-> NoValue,
     original_image |-> NoValue, raw |-> NoValue, refined |-> NoValue,
     response |-> NoValue]

\* the service with the images of `stored` uploaded and no /run request
\* received yet: the singleton's predictor is built (main.py line 27) and
\* has no image set
InitService(slots, stored) ==
    /\ NoCall /\ NoSession
    /\ uploaded_images = [id \in {UploadId(img) : img \in stored} |-> id[2]]
    /\ predictor = [is_image_set |-> FALSE, features |-> None]
    /\ requests = [r \in slots |-> NewRequest]

\* the service after startup, nothing uploaded; one request
InitRun == InitService({"r1"}, {})

\* the service after both images were uploaded; two requests, whose
\* executor threads may interleave
InitConcurrent == InitService({"r1", "r2"}, Images)

\* POST /upload/image with an image file, routes.py lines 112-133
UploadImage ==
    /\ \E img \in Images :
          /\ UploadId(img) \notin DOMAIN uploaded_images
          /\ uploaded_images' = uploaded_images @@ (UploadId(img) :> img)
    /\ UNCHANGED <<predictor, requests, callVars, sessionVars>>

\* POST /run up to its await, routes.py lines 136-205: the ids are looked up,
\* points and labels validated, the image loaded and generate_masks handed to
\* the executor
RunInpainting(r) ==
    /\ requests[r].pc = "idle"
    /\ \E f \in RunForms :
          requests' = [requests EXCEPT ![r] =
              IF f.original_image_id \notin DOMAIN uploaded_images
              THEN [@ EXCEPT !.pc = "responded", !.form = f,
                             !.stored = DOMAIN uploaded_images,
                             !.response =
                                 HTTPException(404, "Original image not found")]
              ELSE IF /\ f.mask_image_id # None
                      /\ f.mask_image_id \notin DOMAIN uploaded_images
              THEN [@ EXCEPT !.pc = "responded", !.form = f,
                             !.stored = DOMAIN uploaded_images,
                             !.response =
                                 HTTPException(404, "Mask image not found")]
              ELSE IF ~ValidPointsAndLabels(f.points, f.labels)
              THEN [@ EXCEPT !.pc = "responded", !.form = f,
                             !.stored = DOMAIN uploaded_images,
                             !.response =
                                 HTTPException(400, "Invalid points/labels format")]
              ELSE [@ EXCEPT !.pc = "submitted", !.form = f,
                             !.stored = DOMAIN uploaded_images,
                             !.original_image =
                                 uploaded_images[f.original_image_id]]]
    /\ UNCHANGED <<uploaded_images, predictor, callVars, sessionVars>>

\* the executor thread of request r, sam_service.py lines 68-78:
\* self._predictor.set_image(image_np) on the singleton's predictor
SetImage(r) ==
    /\ requests[r].pc = "submitted"
    /\ predictor' = [is_image_set |-> TRUE,
                     features |-> requests[r].original_image]
    /\ requests' = [requests EXCEPT ![r].pc = "image_set"]
    /\ UNCHANGED <<uploaded_images, callVars, sessionVars>>

\* the executor thread of request r, sam_service.py lines 81-111 and
\* mask_generation_service.py lines 43-58: self._predictor.predict on the
\* embedding the predictor holds now, the sort by score, the threshold, and
\* the feathering of every result (refined is refine(raw), evaluated through
\* feathered and refined_results)
Predict(r) ==
    /\ requests[r].pc = "image_set"
    /\ \E masks \in {PredictMasks(predictor.features)} :
       \E mattes \in {feathered(masks)} :
       \E scores \in PredictScores :
       \E order \in argsort(scores) :
       \E sorted_indices \in {Reverse(order)} :
          requests' = [requests EXCEPT ![r] =
              [@ EXCEPT !.pc = "generated",
                        !.raw = sam_results(masks, scores, sorted_indices),
                        !.refined =
                            refined_results(mattes, scores, sorted_indices)]]
    /\ UNCHANGED <<uploaded_images, predictor, callVars, sessionVars>>

\* POST /run after its await, routes.py lines 207-227
Respond(r) ==
    /\ requests[r].pc = "generated"
    /\ requests' = [requests EXCEPT ![r] =
           [@ EXCEPT !.pc = "responded",
                     !.response =
                         [status |-> 200,
                          results |-> encode_results(requests[r].original_image,
                                                     requests[r].refined)]]]
    /\ UNCHANGED <<uploaded_images, predictor, callVars, sessionVars>>

NextRun ==
    \/ UploadImage
    \/ \E r \in DOMAIN requests : RunInpainting(r)
    \/ \E r \in DOMAIN requests : SetImage(r)
    \/ \E r \in DOMAIN requests : Predict(r)
    \/ \E r \in DOMAIN requests : Respond(r)

SpecRun == InitRun /\ [][NextRun]_vars

NextConcurrent ==
    \/ \E r \in DOMAIN requests : RunInpainting(r)
    \/ \E r \in DOMAIN requests : SetImage(r)
    \/ \E r \in DOMAIN requests : Predict(r)
    \/ \E r \in DOMAIN requests : Respond(r)

SpecConcurrent == InitConcurrent /\ [][NextConcurrent]_vars

----------------------------------------------------------------------------
(* Properties of the service *)

\* request q was for a stored image, with valid points and labels
WellFormed(q) ==
    /\ q.form.original_image_id \in q.stored
    /\ q.form.mask_image_id = None \/ q.form.mask_image_id \in q.stored
    /\ ValidPointsAndLabels(q.form.points, q.form.labels)

\* the thresholded candidates of an image
Candidates(img) ==
    {threshold(PredictMasks(img)[k]) : k \in 1 .. NumCandidates}

\* C12: a /run request for an uploaded image with valid, equal-length points
\* and labels is answered with exactly one result for each candidate mask of
\* the segmenter (three), in the segmenter's order, which is by descending
\* score; every result carries masked_image, mask and score; the score of
\* the i-th result is the score of the i-th raw mask, and its mask and
\* masked_image are made from the feathered i-th raw mask.
C12_OneResultPerCandidate ==
    \A r \in DOMAIN requests :
        (requests[r].pc = "responded" /\ WellFormed(requests[r])) =>
            \E q \in {requests[r]} :
                /\ q.response.status = 200
                /\ Len(q.raw) = NumCandidates
                /\ \E p \in IndexOrders(NumCandidates) :
                      \A i \in 1 .. NumCandidates :
                          q.raw[i].mask =
                              threshold(PredictMasks(q.original_image)[p[i]])
                /\ \A i, j \in DOMAIN q.raw :
                      i < j => q.raw[i].score >= q.raw[j].score
                /\ q.refined = refine(q.raw)
                /\ Len(q.response.results) = Len(q.raw)
                /\ \A i \in DOMAIN q.response.results :
                      \E res \in {q.response.results[i]} :
                      \E matte \in {apply_feathering(q.raw[i].mask,
                                                     FEATHER_METHOD,
                                                     FEATHER_WIDTH)} :
                          /\ DOMAIN res = {"masked_image", "mask", "score"}
                          /\ res.score = q.raw[i].score
                          /\ res.mask = create_mask_image(matte)
                          /\ res.masked_image =
                                 create_masked_image(q.original_image, matte)

\* C12 witness: a request with two points is answered with three results of
\* three different scores, the best-scored being the segmenter's last
\* candidate, and one matte has a value strictly between 0 and 255
C12_Witness ==
    \E r \in DOMAIN requests :
        /\ requests[r].pc = "responded" /\ WellFormed(requests[r])
        /\ Len(requests[r].form.points) = 2
        /\ requests[r].response.status = 200
        /\ Len(requests[r].response.results) = 3
        /\ requests[r].response.results[1].score
               > requests[r].response.results[2].score
        /\ requests[r].response.results[2].score
               > requests[r].response.results[3].score
        /\ requests[r].raw[1].mask =
               threshold(PredictMasks(requests[r].original_image)[3])
        /\ \E i \in 1 .. 3 :
              \E c \in DOMAIN requests[r].response.results[i].mask.png.rgb :
                  /\ requests[r].response.results[i].mask.png.rgb[c][1] > 0
                  /\ requests[r].response.results[i].mask.png.rgb[c][1] < 255

\* C14: of two /run requests running in the executor, each gets the masks of
\* its own image: the raw masks a request holds after predict are candidates
\* of the image that request loaded, never those of the other request's image.
C14_MasksFromOwnImage ==
    \A r \in DOMAIN requests :
        (\/ requests[r].pc = "generated"
         \/ requests[r].pc = "responded" /\ requests[r].response.status = 200) =>
            \A i \in DOMAIN requests[r].raw :
                requests[r].raw[i].mask \in Candidates(requests[r].original_image)

====
